---- MODULE Spec2Model ----
(***************************************************************************)
(* A model of the physarum simulation: grid.rs (Grid, PopulationConfig,    *)
(* combine), blur.rs (Blur), util.rs (wrap) and model.rs (Agent, Model).   *)
(*                                                                         *)
(* Number representation.                                                  *)
(*  - usize values are naturals.                                           *)
(*  - f32 field values (Grid.data, Grid.buf, Blur.row_buffer, weights,     *)
(*    the attraction table) are exact rationals <<n, d>> with d > 0 in     *)
(*    lowest terms, so sums and products are the exact-arithmetic values.  *)
(*  - f32 coordinates and distances (Agent.x, Agent.y, step_distance,      *)
(*    sensor_distance, arguments of Grid::index) are fixed-point integers  *)
(*    counting 1/Scale units.                                              *)
(*  - angles are integers counting quarter turns, so TAU is 4 and cos and  *)
(*    sin are exact.                                                       *)
(***************************************************************************)
EXTENDS Integers, Sequences, FiniteSets, TLC

VARIABLES
    grids,             \* Model.grids: Seq of Grid records
    agents,            \* Model.agents: Seq of Agent records
    attraction_table,  \* Model.attraction_table: Seq of Seq of rationals
    diffusivity,       \* Model.diffusivity
    iteration,         \* Model.iteration
    img_data_vec,      \* Model.img_data_vec: Seq of ImgData records
    pc,                \* position inside Model::run
    pending,           \* tasks of the current parallel region not yet run
    call,              \* the last operation called, its inputs and its result
    panicked           \* TRUE once a panic!() has aborted the program

vars == <<grids, agents, attraction_table, diffusivity, iteration,
          img_data_vec, pc, pending, call, panicked>>

(***************************************************************************)
(* Bounds of the model.                                                    *)
(***************************************************************************)
\* Grid::new is tried with every width and height in 0..MaxDim.
MaxDim == 8
\* Grid::index is tried with every coordinate from CoordMargin below
\* -dimension to CoordMargin above +dimension (whole units).
CoordMargin == 1
\* The number of distinct random streams Grid::new draws its data from.
MaxSeed == 2

\* Fixed-point resolution of f32 coordinates: 1/Scale.
Scale == 10

(***************************************************************************)
(* Exact rationals.                                                        *)
(***************************************************************************)
Abs(n) == IF n < 0 THEN -n ELSE n

RECURSIVE GCD(_, _)
GCD(a, b) == IF b = 0 THEN a ELSE GCD(b, a % b)

Rat(n, d) ==
    LET s == IF d < 0 THEN -1 ELSE 1
        g == GCD(Abs(n), Abs(d))
    IN  IF n = 0 THEN <<0, 1>> ELSE <<(s * n) \div g, (s * d) \div g>>

Zero == <<0, 1>>
One == <<1, 1>>
RInt(n) == <<n, 1>>
\* Sums and products reduce by common factors before multiplying, which
\* keeps the intermediate integers small.
RAdd(a, b) ==
    LET g == GCD(a[2], b[2])
    IN  Rat(a[1] * (b[2] \div g) + b[1] * (a[2] \div g), (a[2] \div g) * b[2])
RNeg(a) == <<0 - a[1], a[2]>>
RSub(a, b) == RAdd(a, RNeg(b))
RMul(a, b) ==
    LET g1 == GCD(Abs(a[1]), b[2])
        g2 == GCD(Abs(b[1]), a[2])
    IN  IF a[1] = 0 \/ b[1] = 0 THEN <<0, 1>>
        ELSE Rat((a[1] \div g1) * (b[1] \div g2), (a[2] \div g2) * (b[2] \div g1))
RLess(a, b) == RSub(a, b)[1] < 0

RECURSIVE RSumSeq(_)
RSumSeq(s) == IF s = <<>> THEN Zero ELSE RAdd(Head(s), RSumSeq(Tail(s)))

(***************************************************************************)
(* usize bit operations.                                                   *)
(***************************************************************************)
RECURSIVE BitAnd(_, _)
BitAnd(a, b) ==
    IF a = 0 \/ b = 0 THEN 0
    ELSE (a % 2) * (b % 2) + 2 * BitAnd(a \div 2, b \div 2)

RECURSIVE CountOnes(_)
CountOnes(x) == IF x = 0 THEN 0 ELSE (x % 2) + CountOnes(x \div 2)

\* A mutant of IsPowerOfTwo: the test of util.rs, (x & (x - 1)) == 0 with a
\* wrapping subtraction, which also accepts 0.
IsPowerOfTwoZero(x) == CountOnes(x) <= 1

\* usize::is_power_of_two, as Grid::new calls it: exactly one bit set.
IsPowerOfTwo(x) == CountOnes(x) = 1

\* usize::MAX of a 16-bit usize: the arithmetic of this model is 32 bits
\* wide, and the width of usize only sets where the cast below saturates.
USIZE_MAX == 2 ^ 16 - 1

\* `v as usize` of an f32 v (fixed point): truncation toward zero, negative
\* values saturate to 0 and values above usize::MAX to usize::MAX.
AsUsize(v) ==
    IF v <= 0 THEN 0
    ELSE IF v \div Scale > USIZE_MAX THEN USIZE_MAX
    ELSE v \div Scale

\* `n as f32` of a usize n.
AsF32(n) == n * Scale

(***************************************************************************)
(* grid.rs: PopulationConfig and Grid.                                     *)
(***************************************************************************)
DEPOSITION_AMOUNT == 5
\* decay_factor is 0.1 = 1 / DECAY_FACTOR_INV
DECAY_FACTOR_INV == 10

\* PopulationConfig::new for the values the rng yields.  Distances are in
\* 1/Scale units, angles in quarter turns.
PopulationConfig(sd, st, sa, ra) ==
    [sensor_distance |-> sd, step_distance |-> st,
     sensor_angle |-> sa, rotation_angle |-> ra,
     decay_factor |-> Rat(1, DECAY_FACTOR_INV),
     deposition_amount |-> RInt(DEPOSITION_AMOUNT)]

\* rng.sample_iter(Uniform::from(0.0..1.0)).take(n): n values of [0, 1),
\* a function of the generator's state (seed).
SampleIter(seed, n) == [k \in 1..n |-> Rat((seed * k + k * k) % 4, 4)]

\* Blur::new(width)
BlurNew(width) == [row_buffer |-> [k \in 1..width |-> Zero]]

\* The Grid that Grid::new builds when it does not panic.
GridNew(width, height, seed, config) ==
    [config |-> config, width |-> width, height |-> height,
     data |-> SampleIter(seed, width * height),
     buf |-> [k \in 1..(width * height) |-> Zero],
     blur |-> BlurNew(width)]

\* The condition under which Grid::new panics.
GridNewPanics(width, height) ==
    ~IsPowerOfTwo(width) \/ ~IsPowerOfTwo(height)

\* A mutant of Index: the coordinate is cast before the shift, so a
\* negative coordinate saturates to 0 instead of wrapping.
IndexCastFirst(g, x, y) ==
    LET i == BitAnd(AsUsize(x) + g.width, g.width - 1)
        j == BitAnd(AsUsize(y) + g.height, g.height - 1)
    IN  j * g.width + i

\* A mutant of Index: the mask is the dimension, not the dimension less one.
IndexMaskDim(g, x, y) ==
    LET i == BitAnd(AsUsize(x + AsF32(g.width)), g.width)
        j == BitAnd(AsUsize(y + AsF32(g.height)), g.height)
    IN  j * g.width + i

\* Grid::index: the 0-based flat index of the cell of (x, y).
Index(g, x, y) ==
    LET i == BitAnd(AsUsize(x + AsF32(g.width)), g.width - 1)
        j == BitAnd(AsUsize(y + AsF32(g.height)), g.height - 1)
    IN  j * g.width + i

\* Grid::get_buf
GetBuf(g, x, y) == g.buf[Index(g, x, y) + 1]

\* A mutant of Deposit: the cell is overwritten instead of added to.
DepositOverwrite(g, x, y) ==
    LET idx == Index(g, x, y) + 1
    IN  [g EXCEPT !.data[idx] = g.config.deposition_amount]

\* Grid::deposit
Deposit(g, x, y) ==
    LET idx == Index(g, x, y) + 1
    IN  [g EXCEPT !.data[idx] = RAdd(@, g.config.deposition_amount)]

(***************************************************************************)
(* blur.rs: Blur.                                                          *)
(***************************************************************************)
\* f32::sqrt followed by `as usize`: floor(sqrt(p / q)) for p >= 0, q > 0.
SqrtAsUsize(p, q) ==
    CHOOSE w \in 0..(p + q) : w * w * q <= p /\ (w + 1) * (w + 1) * q > p

\* A mutant of RoundAsUsize: the cast alone, which truncates.
TruncAsUsize(r) == IF r[1] <= 0 THEN 0 ELSE r[1] \div r[2]

\* f32::round followed by `as usize`: half away from zero, negative values
\* saturate to 0.
RoundAsUsize(r) == IF r[1] <= 0 THEN 0 ELSE (2 * r[1] + r[2]) \div (2 * r[2])

\* Blur::boxes_for_gaussian::<N>(sigma), sigma in 1/Scale units: the N radii.
BoxesForGaussian(N, sigma) ==
    LET w0 == SqrtAsUsize(12 * sigma * sigma + N * Scale * Scale, N * Scale * Scale)
        w == w0 - (1 - BitAnd(w0, 1))
        m0 == RSub(Rat(N * (w + 3), 4),
                   Rat(3 * sigma * sigma, Scale * Scale * (w + 1)))
        m == RoundAsUsize(m0)
    IN  [k \in 1..N |-> (IF k - 1 < m THEN w - 1 ELSE w + 1) \div 2]

\* The closure of box_blur_h on one row: the sliding window over src_row
\* (a sequence of width values), from output index i on, value being the
\* running sum.
RECURSIVE SlideRow(_, _, _, _, _, _)
SlideRow(src_row, width, radius, weight, i, value) ==
    IF i = width THEN <<>>
    ELSE LET left == BitAnd(i + (width - radius) - 1, width - 1)
             right == BitAnd(i + radius, width - 1)
             v == RSub(RAdd(value, src_row[right + 1]), src_row[left + 1])
         IN  <<RMul(v, weight)>> \o SlideRow(src_row, width, radius, weight, i + 1, v)

\* value after the first j steps of `for j in 0..radius` in box_blur_h.
RECURSIVE RowStart(_, _, _, _)
RowStart(src_row, width, radius, j) ==
    IF j = 0 THEN src_row[width - radius - 1 + 1]
    ELSE RAdd(RowStart(src_row, width, radius, j - 1),
              RAdd(src_row[(width - radius) + (j - 1) + 1], src_row[(j - 1) + 1]))

\* The rows of dst that box_blur_h writes, from row r (0-based) on: every
\* row is filtered on its own, by its own task.
RECURSIVE BlurRows(_, _, _, _, _)
BlurRows(src, width, radius, r, rows) ==
    IF r = rows THEN <<>>
    ELSE LET src_row == [i \in 1..width |-> src[r * width + i]]
         IN  SlideRow(src_row, width, radius, Rat(1, 2 * radius + 1), 0,
                      RowStart(src_row, width, radius, radius))
                \o BlurRows(src, width, radius, r + 1, rows)

\* Blur::box_blur_h: the dst it writes.
BoxBlurH(src, width, radius) ==
    BlurRows(src, width, radius, 0, Len(src) \div width)

\* box_blur_h panics (usize underflow or slice index out of range) when the
\* radius does not fit the row.
BoxBlurHPanics(width, radius) == radius >= width

\* A mutant of ColStart: the running sums start from the top rows alone,
\* without the rows wrapped around from the bottom edge.
RECURSIVE ColStartNoWrap(_, _, _, _, _)
ColStartNoWrap(src, width, height, radius, j) ==
    IF j = 0
    THEN [c \in 1..width |-> src[((height - radius) - 1) * width + c]]
    ELSE LET prev == ColStartNoWrap(src, width, height, radius, j - 1)
             top_off == (j - 1) * width
         IN  [c \in 1..width |-> RAdd(prev[c], src[top_off + c])]

\* row_buffer after the first j steps of `for j in 0..radius` in box_blur_v.
RECURSIVE ColStart(_, _, _, _, _)
ColStart(src, width, height, radius, j) ==
    IF j = 0
    THEN [c \in 1..width |-> src[((height - radius) - 1) * width + c]]
    ELSE LET prev == ColStart(src, width, height, radius, j - 1)
             bottom_off == ((height - radius) + (j - 1)) * width
             top_off == (j - 1) * width
         IN  [c \in 1..width |->
                 RAdd(prev[c], RAdd(src[bottom_off + c], src[top_off + c]))]

\* The sequential row loop of box_blur_v from row i on: the rows of dst it
\* writes (concatenated) and the final row_buffer.
RECURSIVE SlideCols(_, _, _, _, _, _, _)
SlideCols(src, width, height, radius, weight, i, row_buffer) ==
    IF i = height THEN [dst |-> <<>>, row_buffer |-> row_buffer]
    ELSE LET bottom_off == BitAnd(i + (height - radius) - 1, height - 1) * width
             top_off == BitAnd(i + radius, height - 1) * width
             buf == [c \in 1..width |->
                        RSub(RAdd(row_buffer[c], src[top_off + c]), src[bottom_off + c])]
             rest == SlideCols(src, width, height, radius, weight, i + 1, buf)
         IN  [dst |-> [c \in 1..width |-> RMul(buf[c], weight)] \o rest.dst,
              row_buffer |-> rest.row_buffer]

\* Blur::box_blur_v: the dst it writes and the row_buffer it leaves.
BoxBlurV(src, width, height, radius, decay) ==
    SlideCols(src, width, height, radius, RMul(decay, Rat(1, 2 * radius + 1)), 0,
              ColStart(src, width, height, radius, radius))

\* box_blur_v panics when the radius does not fit the column.
BoxBlurVPanics(height, radius) == radius >= height

\* Blur::box_blur on a grid's data (src) and buf: horizontal pass from data
\* into buf, vertical pass from buf back into data.
BoxBlur(g, radius, decay) ==
    LET h == BoxBlurH(g.data, g.width, radius)
        v == BoxBlurV(h, g.width, g.height, radius, decay)
    IN  [g EXCEPT !.buf = h, !.data = v.dst, !.blur.row_buffer = v.row_buffer]

BoxBlurPanics(g, radius) ==
    BoxBlurHPanics(g.width, radius) \/ BoxBlurVPanics(g.height, radius)

\* A mutant of Run: the decay is applied in both box passes.
RunDecayTwice(g, sigma, decay) ==
    LET boxes == BoxesForGaussian(2, sigma)
    IN  BoxBlur(BoxBlur(g, boxes[1], decay), boxes[2], decay)

\* Blur::run on a grid's data and buf.
Run(g, sigma, decay) ==
    LET boxes == BoxesForGaussian(2, sigma)
    IN  BoxBlur(BoxBlur(g, boxes[1], One), boxes[2], decay)

RunPanics(g, sigma) ==
    LET boxes == BoxesForGaussian(2, sigma)
    IN  BoxBlurPanics(g, boxes[1]) \/ BoxBlurPanics(g, boxes[2])

\* Grid::diffuse
Diffuse(g, radius) == Run(g, AsF32(radius), g.config.decay_factor)

DiffusePanics(g, radius) == RunPanics(g, AsF32(radius))

(***************************************************************************)
(* grid.rs: combine.                                                       *)
(***************************************************************************)
\* A mutant of Fill: the buffer is not zeroed, so each call adds to what the
\* buffer held.
FillNothing(buf) == buf

\* buf.fill(0.0)
Fill(buf) == [c \in DOMAIN buf |-> Zero]

\* A mutant of Multiplier: the table is read transposed.
MultiplierTransposed(table, i, j) == table[j][i]

\* attraction_table[i].as_ref()[j]
Multiplier(table, i, j) == table[i][j]

\* buf of grid i after the first j grids were added by the inner for_each
\* of combine (zip stops at the shorter of buf and data).
RECURSIVE CombineBuf(_, _, _, _)
CombineBuf(gs, table, i, j) ==
    IF j = 0 THEN Fill(gs[i].buf)
    ELSE LET acc == CombineBuf(gs, table, i, j - 1)
             other == gs[j].data
             multiplier == Multiplier(table, i, j)
         IN  [c \in DOMAIN acc |->
                 IF c <= Len(other) THEN RAdd(acc[c], RMul(other[c], multiplier))
                 ELSE acc[c]]

\* combine(grids, attraction_table): the grids it leaves.
Combine(gs, table) ==
    [i \in 1..Len(gs) |-> [gs[i] EXCEPT !.buf = CombineBuf(gs, table, i, Len(gs))]]

(***************************************************************************)
(* util.rs: wrap; model.rs: Agent and Model.                               *)
(***************************************************************************)
\* std::f32::consts::TAU, in quarter turns.
TAU == 4

\* f32::cos and f32::sin of an angle given in quarter turns.
Cos(angle) == CASE angle % TAU = 0 -> 1
                [] angle % TAU = 2 -> -1
                [] OTHER -> 0
Sin(angle) == Cos(angle - 1)

\* A mutant of Wrap: the upper comparison is x >= max.
WrapHalfOpen(x, max) ==
    x - max * ((IF x >= max THEN 1 ELSE 0) - (IF x < 0 THEN 1 ELSE 0))

\* util::wrap
Wrap(x, max) ==
    x - max * ((IF x > max THEN 1 ELSE 0) - (IF x < 0 THEN 1 ELSE 0))

\* Agent::rotate_and_move: the agent it leaves.
RotateAndMove(agent, direction, rotation_angle, step_distance, width, height) ==
    LET delta_angle == rotation_angle * direction
        angle == Wrap(agent.angle + delta_angle, TAU)
    IN  [agent EXCEPT
            !.angle = angle,
            !.x = Wrap(agent.x + step_distance * Cos(angle), AsF32(width)),
            !.y = Wrap(agent.y + step_distance * Sin(angle), AsF32(height))]

\* A mutant of PickDirection: center keeps the heading also when it only
\* ties with one side and exceeds the other.
PickDirectionTies(center, left, right) ==
    IF /\ ~RLess(center, left) /\ ~RLess(center, right)
       /\ (RLess(left, center) \/ RLess(right, center)) THEN {0}
    ELSE IF RLess(center, left) /\ RLess(center, right) THEN {-1, 1}
    ELSE IF RLess(left, right) THEN {1}
    ELSE IF RLess(right, left) THEN {-1}
    ELSE {0}

\* Model::pick_direction: the directions it can return (the rng picks one of
\* -1 and 1 when center is below both sides).
PickDirection(center, left, right) ==
    IF RLess(left, center) /\ RLess(right, center) THEN {0}
    ELSE IF RLess(center, left) /\ RLess(center, right) THEN {-1, 1}
    ELSE IF RLess(left, right) THEN {1}
    ELSE IF RLess(right, left) THEN {-1}
    ELSE {0}

\* The closure of self.agents.par_iter_mut().for_each in Model::run: the
\* agents it can leave in place of `agent`.
AgentUpdate(gs, agent) ==
    LET grid == gs[agent.population_id + 1]
        sensor_distance == grid.config.sensor_distance
        sensor_angle == grid.config.sensor_angle
        xc == agent.x + Cos(agent.angle) * sensor_distance
        yc == agent.y + Sin(agent.angle) * sensor_distance
        agent_add_sens == agent.angle + sensor_angle
        agent_sub_sens == agent.angle - sensor_angle
        xl == agent.x + Cos(agent_sub_sens) * sensor_distance
        yl == agent.y + Sin(agent_sub_sens) * sensor_distance
        xr == agent.x + Cos(agent_add_sens) * sensor_distance
        yr == agent.y + Sin(agent_add_sens) * sensor_distance
        trail_c == GetBuf(grid, xc, yc)
        trail_l == GetBuf(grid, xl, yl)
        trail_r == GetBuf(grid, xr, yr)
    IN  {RotateAndMove(agent, direction, grid.config.rotation_angle,
                       grid.config.step_distance, grid.width, grid.height) :
            direction \in PickDirection(trail_c, trail_l, trail_r)}

\* The k-th value the random generator yields, as an index into a set of n
\* values; seed is the generator's state at construction.
Draw(seed, k, n) ==
    LET h == (seed * 7 + k * 13 + seed * k) % 1009
    IN  ((h * h) \div 32) % n

\* Samples of the ranges PopulationConfig::new draws from: sensor_distance in
\* [0, 64], step_distance in [0.2, 2.0], the angles in [0, 120] degrees.
SENSOR_DISTANCE_MAX == 64
SensorDistances == <<0, Scale, SENSOR_DISTANCE_MAX * Scale>>
StepDistances == <<Scale \div 5, Scale, 2 * Scale>>
SensorAngles == <<0, 1>>
RotationAngles == <<0, 1>>

\* PopulationConfig::new(rng), the draws starting after stream position k.
PopulationConfigNew(seed, k) ==
    PopulationConfig(SensorDistances[Draw(seed, k + 1, 3) + 1],
                     StepDistances[Draw(seed, k + 2, 3) + 1],
                     SensorAngles[Draw(seed, k + 4, 2) + 1],
                     RotationAngles[Draw(seed, k + 5, 2) + 1])

\* A mutant of AgentNew: the arguments id and i are swapped.
AgentNewSwapped(width, height, id, seed, k, i) ==
    [x |-> Draw(seed, k + 1, Scale) * width,
     y |-> Draw(seed, k + 2, Scale) * height,
     angle |-> Draw(seed, k + 3, TAU),
     population_id |-> i,
     i |-> id]

\* Agent::new(width, height, id, rng, i), the draws starting after stream
\* position k: x and y are a uniform sample of [0, 1) (in 1/Scale) times the
\* dimension, angle a uniform sample (in quarters) times TAU.
AgentNew(width, height, id, seed, k, i) ==
    [x |-> Draw(seed, k + 1, Scale) * width,
     y |-> Draw(seed, k + 2, Scale) * height,
     angle |-> Draw(seed, k + 3, TAU),
     population_id |-> id,
     i |-> i]

\* Model::new, for dimensions Grid::new accepts: the fields of the Model.
ModelNew(width, height, n_particles0, n_populations, diff, seed) ==
    LET particles_per_grid == (n_particles0 + n_populations - 1) \div n_populations
        n_particles == particles_per_grid * n_populations
        n2 == n_populations * n_populations
        AttractionSeq == <<RInt(1), Rat(1, 2)>>
        RepulsionSeq == <<RInt(-1), Rat(-1, 2)>>
    IN  [attraction_table |->
            [i \in 1..n_populations |-> [j \in 1..n_populations |->
                IF i = j
                THEN AttractionSeq[Draw(seed, (i - 1) * n_populations + j, 2) + 1]
                ELSE RepulsionSeq[Draw(seed, (i - 1) * n_populations + j, 2) + 1]]],
         agents |->
            [a \in 1..n_particles |->
                AgentNew(width, height, (a - 1) \div particles_per_grid, seed,
                         n2 + 3 * (a - 1), a - 1)],
         grids |->
            [g \in 1..n_populations |->
                GridNew(width, height, seed + g,
                        PopulationConfigNew(seed,
                            n2 + 3 * n_particles + g * (width * height + 6) - 6))],
         diffusivity |-> diff]

\* A mutant of ImgData: the snapshot carries the counter after the increment.
ImgDataIncremented(gs, iter) == [grids |-> gs, iteration |-> iter + 1]

\* ImgData::new(grids, palette, iteration)
ImgData(gs, iter) == [grids |-> gs, iteration |-> iter]

\* A mutant of JoinDone: the caller goes on while tasks are still pending.
JoinEarly(tasks) == TRUE

\* rayon's for_each returns once every task of the parallel region has run.
JoinDone(tasks) == tasks = {}

(***************************************************************************)
(* SpecGrid: Grid::new on arbitrary dimensions, then index and get_buf on  *)
(* arbitrary coordinates.                                                  *)
(***************************************************************************)
NoCall == [op |-> "none"]

DefaultConfig == PopulationConfig(Scale, Scale, 1, 1)

Coords(dim) == ((0 - dim - CoordMargin) * Scale)..((dim + CoordMargin) * Scale)

InitGrid ==
    /\ grids = <<>>
    /\ agents = <<>>
    /\ attraction_table = <<>>
    /\ diffusivity = 1
    /\ iteration = 0
    /\ img_data_vec = <<>>
    /\ pc = "idle"
    /\ pending = {}
    /\ call = NoCall
    /\ panicked = FALSE

GridNewCall ==
    /\ grids = <<>>
    /\ ~panicked
    /\ \E width \in 0..MaxDim, height \in 0..MaxDim, seed \in 1..MaxSeed :
          /\ call' = [op |-> "new", width |-> width, height |-> height]
          /\ IF GridNewPanics(width, height)
             THEN /\ panicked' = TRUE
                  /\ grids' = grids
             ELSE /\ panicked' = FALSE
                  /\ grids' = <<GridNew(width, height, seed, DefaultConfig)>>
    /\ UNCHANGED <<agents, attraction_table, diffusivity, iteration,
                   img_data_vec, pc, pending>>

\* One call of Grid::index on the freshly built grid.
IndexCall ==
    /\ Len(grids) = 1
    /\ ~panicked
    /\ call.op = "new"
    /\ \E x \in Coords(grids[1].width), y \in Coords(grids[1].height) :
          call' = [op |-> "index", x |-> x, y |-> y,
                   ret |-> Index(grids[1], x, y)]
    /\ UNCHANGED <<grids, agents, attraction_table, diffusivity, iteration,
                   img_data_vec, pc, pending, panicked>>

NextGrid == GridNewCall \/ IndexCall

SpecGrid == InitGrid /\ [][NextGrid]_vars

\* The exact powers of two up to 2^MaxDim, written without IsPowerOfTwo.
PowersOfTwo == {2 ^ k : k \in 0..MaxDim}

\* floor(v) of a fixed-point v, as a whole number.
Floor(v) == v \div Scale

\* C1: Grid::new(width, height, rng) panics whenever width or height is not
\* an exact power of two (0 and 5x5 included); for every pair of powers of
\* two it returns a grid whose data and buf both have length width * height
\* and whose buf is all zero.
C1_GridNew ==
    call.op = "new" =>
        /\ panicked <=> ~(call.width \in PowersOfTwo /\ call.height \in PowersOfTwo)
        /\ ~panicked =>
              /\ Len(grids) = 1
              /\ grids[1].width = call.width
              /\ grids[1].height = call.height
              /\ Len(grids[1].data) = call.width * call.height
              /\ Len(grids[1].buf) = call.width * call.height
              /\ \A k \in 1..Len(grids[1].buf) : grids[1].buf[k] = Zero

\* Grid::new(5, 5, rng) has panicked (tests::test_grid_new_panics).
C1_Witness == panicked /\ call.op = "new" /\ call.width = 5 /\ call.height = 5

C3_TestGridNew ==
    (call.op = "index" /\ grids[1].width = 8 /\ grids[1].height = 8) =>
        /\ (call.x > 0 - Scale /\ call.x < 0 /\ call.y > 0 - Scale /\ call.y < 0) =>
              call.ret = 0
        /\ (call.x >= 0 /\ call.x < 8 * Scale /\ call.y >= 0 /\ call.y < 8 * Scale) =>
              call.ret = Floor(call.y) * 8 + Floor(call.x)

(***************************************************************************)
(* SpecBlur: one call of a Blur function (or of Grid::diffuse) on a grid   *)
(* with power-of-two dimensions and an arbitrary field.                    *)
(***************************************************************************)
\* Fields are blurred on grids of up to MaxBlurDim x MaxBlurDim cells.
MaxBlurDim == 4
\* Box radii 0..MaxRadius are tried (those that do not fit the grid panic).
MaxRadius == 4
\* boxes_for_gaussian is tried with sigma = 0.1 .. MaxSigma / Scale.
MaxSigma == 30
\* Grid::diffuse is tried with radius 0..MaxDiffusivity.
MaxDiffusivity == 2

BlurDims == {d \in 1..MaxBlurDim : IsPowerOfTwo(d)}

\* The fields tried: every unit impulse (the passes are linear, so these
\* decide every output coefficient) and the random fields of Grid::new.
BlurFields(n) ==
    {[k \in 1..n |-> IF k = p THEN One ELSE Zero] : p \in 1..n}
        \cup {SampleIter(seed, n) : seed \in 1..MaxSeed}

Decays == {One, Rat(1, DECAY_FACTOR_INV)}

InitBlur ==
    /\ \E width \in BlurDims, height \in BlurDims :
          \E field \in BlurFields(width * height) :
             grids = <<[GridNew(width, height, 1, DefaultConfig) EXCEPT !.data = field]>>
    /\ agents = <<>>
    /\ attraction_table = <<>>
    /\ diffusivity = 1
    /\ iteration = 0
    /\ img_data_vec = <<>>
    /\ pc = "idle"
    /\ pending = {}
    /\ call = NoCall
    /\ panicked = FALSE

BoxesForGaussianCall ==
    /\ call.op = "none"
    /\ \E N \in {2, 3}, sigma \in 1..MaxSigma :
          call' = [op |-> "boxes_for_gaussian", N |-> N, sigma |-> sigma,
                   ret |-> BoxesForGaussian(N, sigma)]
    /\ UNCHANGED <<grids, agents, attraction_table, diffusivity, iteration,
                   img_data_vec, pc, pending, panicked>>

\* blur.box_blur_h(&data, &mut buf, width, radius)
BoxBlurHCall ==
    /\ call.op = "none"
    /\ \E radius \in 0..MaxRadius :
          LET g == grids[1]
          IN  /\ call' = [op |-> "box_blur_h", radius |-> radius, src |-> g.data]
              /\ IF BoxBlurHPanics(g.width, radius)
                 THEN panicked' = TRUE /\ grids' = grids
                 ELSE /\ panicked' = FALSE
                      /\ grids' = <<[g EXCEPT !.buf = BoxBlurH(g.data, g.width, radius)]>>
    /\ UNCHANGED <<agents, attraction_table, diffusivity, iteration,
                   img_data_vec, pc, pending>>

\* blur.box_blur_v(&data, &mut buf, width, height, radius, decay)
BoxBlurVCall ==
    /\ call.op = "none"
    /\ \E radius \in 0..MaxRadius, decay \in Decays :
          LET g == grids[1]
              v == BoxBlurV(g.data, g.width, g.height, radius, decay)
          IN  /\ call' = [op |-> "box_blur_v", radius |-> radius, decay |-> decay,
                          src |-> g.data]
              /\ IF BoxBlurVPanics(g.height, radius)
                 THEN panicked' = TRUE /\ grids' = grids
                 ELSE /\ panicked' = FALSE
                      /\ grids' = <<[g EXCEPT !.buf = v.dst,
                                              !.blur.row_buffer = v.row_buffer]>>
    /\ UNCHANGED <<agents, attraction_table, diffusivity, iteration,
                   img_data_vec, pc, pending>>

\* blur.box_blur(&mut data, &mut buf, width, height, radius, decay)
BoxBlurCall ==
    /\ call.op = "none"
    /\ \E radius \in 0..MaxRadius, decay \in Decays :
          LET g == grids[1]
          IN  /\ call' = [op |-> "box_blur", radius |-> radius, decay |-> decay,
                          src |-> g.data]
              /\ IF BoxBlurPanics(g, radius)
                 THEN panicked' = TRUE /\ grids' = grids
                 ELSE /\ panicked' = FALSE
                      /\ grids' = <<BoxBlur(g, radius, decay)>>
    /\ UNCHANGED <<agents, attraction_table, diffusivity, iteration,
                   img_data_vec, pc, pending>>

\* grid.diffuse(radius)
DiffuseCall ==
    /\ call.op = "none"
    /\ \E radius \in 0..MaxDiffusivity :
          LET g == grids[1]
          IN  /\ call' = [op |-> "diffuse", radius |-> radius, src |-> g.data,
                          boxes |-> BoxesForGaussian(2, AsF32(radius))]
              /\ IF DiffusePanics(g, radius)
                 THEN panicked' = TRUE /\ grids' = grids
                 ELSE /\ panicked' = FALSE
                      /\ grids' = <<Diffuse(g, radius)>>
    /\ UNCHANGED <<agents, attraction_table, diffusivity, iteration,
                   img_data_vec, pc, pending>>

NextBlur ==
    \/ BoxesForGaussianCall
    \/ BoxBlurHCall
    \/ BoxBlurVCall
    \/ BoxBlurCall
    \/ DiffuseCall

SpecBlur == InitBlur /\ [][NextBlur]_vars

\* C4: boxes_for_gaussian with 3 passes returns [1,1,1] for sigma 1.5,
\* [1,1,2] for sigma 1.8 and [2,2,2] for sigma 2.5; in general it returns K
\* radii, the first m being (w-1)/2 and the other K-m being (w+1)/2, where w
\* is floor(sqrt(12 sigma^2 / K + 1)) forced odd (the largest odd integer
\* not above the root) and m = round(K (w+3) / 4 - 3 sigma^2 / (w+1)).
C4_BoxesForGaussian ==
    call.op = "boxes_for_gaussian" =>
        LET K == call.N
            s == call.sigma
            q == K * Scale * Scale
            p == 12 * s * s + q
        IN  /\ (K = 3 /\ 2 * s = 3 * Scale) => call.ret = <<1, 1, 1>>
            /\ (K = 3 /\ 5 * s = 9 * Scale) => call.ret = <<1, 1, 2>>
            /\ (K = 3 /\ 2 * s = 5 * Scale) => call.ret = <<2, 2, 2>>
            /\ Len(call.ret) = K
            /\ \E w \in 1..(3 * s + Scale), m \in 0..K :
                  /\ w % 2 = 1
                  /\ w * w * q <= p
                  /\ (w + 2) * (w + 2) * q > p
                  /\ LET vn == K * (w + 3) * (w + 1) * Scale * Scale - 12 * s * s
                         vd == 4 * Scale * Scale * (w + 1)
                     IN  (2 * m - 1) * vd <= 2 * vn /\ 2 * vn < (2 * m + 1) * vd
                  /\ \A k \in 1..K :
                        call.ret[k] = IF k <= m THEN (w - 1) \div 2 ELSE (w + 1) \div 2

\* boxes_for_gaussian::<3>(1.8) has returned radii of two different sizes.
C4_Witness ==
    /\ call.op = "boxes_for_gaussian"
    /\ call.N = 3 /\ 5 * call.sigma = 9 * Scale
    /\ call.ret = <<1, 1, 2>>

\* The periodic moving average along x: cell (row, i) of the result is
\* (1 / (2r+1)) * sum over k in -r..r of src[row][(i + k) mod width].
RefH(src, width, height, r) ==
    [n \in 1..(width * height) |->
        LET row == (n - 1) \div width
            i == (n - 1) % width
        IN  RMul(Rat(1, 2 * r + 1),
                 RSumSeq([k \in 1..(2 * r + 1) |->
                             src[row * width + ((i + k - 1 - r) % width) + 1]]))]

\* The periodic moving average along y, times decay: cell (i, c) of the
\* result is (decay / (2r+1)) * sum over k in -r..r of src[(i + k) mod height][c].
RefV(src, width, height, r, decay) ==
    [n \in 1..(width * height) |->
        LET i == (n - 1) \div width
            c == (n - 1) % width
        IN  RMul(RMul(decay, Rat(1, 2 * r + 1)),
                 RSumSeq([k \in 1..(2 * r + 1) |->
                             src[((i + k - 1 - r) % height) * width + c + 1]]))]

\* C5: for power-of-two width and height and any radius smaller than the
\* blurred dimension, box_blur_h and box_blur_v return and write the periodic
\* moving average (times decay for box_blur_v) in every cell, the cells
\* whose window crosses the grid edge included.
C5_PeriodicAverage ==
    /\ call.op = "box_blur_h" =>
          /\ call.radius < grids[1].width => ~panicked
          /\ ~panicked =>
                grids[1].buf = RefH(call.src, grids[1].width, grids[1].height, call.radius)
    /\ call.op = "box_blur_v" =>
          /\ call.radius < grids[1].height => ~panicked
          /\ ~panicked =>
                grids[1].buf = RefV(call.src, grids[1].width, grids[1].height,
                                    call.radius, call.decay)

\* box_blur_v with radius 1 has filtered a 4-row field whose only non-zero
\* cell is in the last row: the first row received it through the edge.
C5_Witness ==
    /\ call.op = "box_blur_v" /\ ~panicked
    /\ call.radius = 1 /\ grids[1].height = 4
    /\ call.src[3 * grids[1].width + 1] = One
    /\ call.src[1] = Zero /\ call.src[grids[1].width + 1] = Zero
    /\ grids[1].buf[1] # Zero

Total(field) == RSumSeq(field)

\* C6: a single box pass with decay 1.0 preserves the sum of the field;
\* Blur::run / Grid::diffuse applies the decay in exactly one place, the
\* vertical pass of the last box pass, so after diffuse the result is in
\* data and its total is decay_factor times the total before.
C6_DecayOnce ==
    /\ (call.op = "box_blur" /\ ~panicked /\ call.decay = One) =>
          Total(grids[1].data) = Total(call.src)
    /\ (call.op = "diffuse" /\ ~panicked) =>
          LET g == grids[1]
              first == RefV(RefH(call.src, g.width, g.height, call.boxes[1]),
                            g.width, g.height, call.boxes[1], One)
              lastH == RefH(first, g.width, g.height, call.boxes[2])
          IN  /\ g.buf = lastH
              /\ g.data = RefV(lastH, g.width, g.height, call.boxes[2],
                               g.config.decay_factor)
              /\ Total(g.data) = RMul(g.config.decay_factor, Total(call.src))

\* diffuse(1) has returned on a field with a non-zero total.
C6_Witness ==
    /\ call.op = "diffuse" /\ ~panicked
    /\ call.radius = 1
    /\ Total(call.src) # Zero
    /\ Total(grids[1].data) # Total(call.src)

(***************************************************************************)
(* SpecCombine: combine called repeatedly on up to MaxPopulations grids    *)
(* with arbitrary fields, buffers and attraction table, deposits between.  *)
(***************************************************************************)
\* Up to MaxPopulations grids are combined.
MaxPopulations == 2
\* combine is called up to MaxCombines times in a row.
MaxCombines == 2
\* Up to MaxDeposits deposits change the fields between the calls.
MaxDeposits == 1

\* Samples of the attraction distribution (mean +1, the diagonal) and of
\* the repulsion distribution (mean -1, off the diagonal).
AttractionSamples == {RInt(1), Rat(1, 2)}
RepulsionSamples == {RInt(-1), Rat(-1, 2)}

\* The tables Model::new can build for n populations.
AttractionTables(n) ==
    {t \in [1..n -> [1..n -> AttractionSamples \cup RepulsionSamples]] :
        \A i, j \in 1..n :
            t[i][j] \in (IF i = j THEN AttractionSamples ELSE RepulsionSamples)}

\* The fields of n grids of `cells` cells: a unit impulse in one cell of one
\* grid (combine is linear in the fields), or the random fields of Grid::new.
FieldFamilies(n, cells) ==
    {[i \in 1..n |-> [k \in 1..cells |-> IF i = g /\ k = p THEN One ELSE Zero]] :
        g \in 1..n, p \in 1..cells}
        \cup {[i \in 1..n |-> SampleIter(seed + i, cells)] : seed \in 1..MaxSeed}

\* Contents a mix buffer may hold before combine: zero as built, or the
\* scratch values an earlier diffuse left.
StaleBufs(n) == {[k \in 1..n |-> Zero], [k \in 1..n |-> RInt(k)]}

InitCombine ==
    /\ \E n \in 1..MaxPopulations, width \in {1, 2} :
          /\ \E fields \in FieldFamilies(n, width), buf \in StaleBufs(width) :
                grids = [i \in 1..n |->
                            [GridNew(width, 1, 1, DefaultConfig)
                                EXCEPT !.data = fields[i], !.buf = buf]]
          /\ attraction_table \in AttractionTables(n)
    /\ agents = <<>>
    /\ diffusivity = 1
    /\ iteration = 0
    /\ img_data_vec = <<>>
    /\ pc = "idle"
    /\ pending = {}
    /\ call = [op |-> "none", times |-> 0, deposits |-> 0]
    /\ panicked = FALSE

\* combine(&mut grids, &attraction_table)
CombineCall ==
    /\ call.times < MaxCombines
    /\ call' = [op |-> "combine", times |-> call.times + 1,
                deposits |-> call.deposits, before |-> grids]
    /\ grids' = Combine(grids, attraction_table)
    /\ UNCHANGED <<agents, attraction_table, diffusivity, iteration,
                   img_data_vec, pc, pending, panicked>>

\* grids[i].deposit(x, y) after a combine
DepositCall ==
    /\ call.op = "combine"
    /\ call.deposits < MaxDeposits
    /\ \E i \in 1..Len(grids), x \in {0, Scale} :
          grids' = [grids EXCEPT ![i] = Deposit(grids[i], x, 0)]
    /\ call' = [op |-> "deposit", times |-> 0, deposits |-> call.deposits + 1]
    /\ UNCHANGED <<agents, attraction_table, diffusivity, iteration,
                   img_data_vec, pc, pending, panicked>>

NextCombine == CombineCall \/ DepositCall

SpecCombine == InitCombine /\ [][NextCombine]_vars

\* C7: after combine returns, for every grid i and cell c, grids[i].buf[c]
\* is the sum over all grids j (j = i included) of
\* attraction_table[i][j] * grids[j].data[c], whatever buf held before.
C7_CombineSum ==
    call.op = "combine" =>
        \A i \in 1..Len(grids) :
            /\ Len(grids[i].buf) = Len(call.before[i].buf)
            /\ \A c \in 1..Len(grids[i].buf) :
                  grids[i].buf[c] =
                      RSumSeq([j \in 1..Len(grids) |->
                                  RMul(attraction_table[i][j], call.before[j].data[c])])

\* combine has returned on two grids with an asymmetric table, where the
\* buffer of grid 1 held non-zero values before the call.
C7_Witness ==
    /\ call.op = "combine"
    /\ Len(grids) = 2
    /\ attraction_table[1][2] # attraction_table[2][1]
    /\ call.before[1].buf[1] # Zero
    /\ grids[1].buf[1] # call.before[1].buf[1]

\* C8: combine never modifies any grid's data, and keeps no hidden
\* accumulation: a second combine in a row, with fields and table unchanged,
\* leaves every mix buffer as the first call left it.
C8_CombinePure ==
    call.op = "combine" =>
        /\ \A i \in 1..Len(grids) : grids[i].data = call.before[i].data
        /\ Len(grids) = Len(call.before)
        /\ call.times >= 2 =>
              \A i \in 1..Len(grids) : grids[i].buf = call.before[i].buf

\* combine has returned twice in a row, leaving a non-zero mix buffer.
C8_Witness ==
    /\ call.op = "combine"
    /\ call.times = 2
    /\ grids[1].buf[1] # Zero

(***************************************************************************)
(* Spec: Model::new, then Model::run (and flush_image_data between runs).  *)
(* pc is the position inside the loop body of run; the tasks of a          *)
(* parallel region (par_iter_mut().for_each) run one at a time in any      *)
(* order.  call holds the locals of run and, as history, what the current  *)
(* iteration has done so far.                                              *)
(***************************************************************************)
\* Model::new is tried with the generator in states 1..MaxModelSeed.
MaxModelSeed == 16
\* n_particles is 1..MaxParticles.
MaxParticles == 2
\* run is called until MaxIterations iterations were made.
MaxIterations == 2
\* Grids of the model are square, 2^k cells wide for k in 0..MaxDimLog.
MaxDimLog == 2

\* The diffusivity main passes to Model::new.
DIFFUSIVITY == 1

Fields(gs) == [g \in 1..Len(gs) |-> gs[g].data]

Idle == [op |-> "none"]

Init ==
    /\ \E width \in {2 ^ k : k \in 0..MaxDimLog},
          n_particles \in 1..MaxParticles,
          n_populations \in 1..MaxPopulations,
          seed \in 1..MaxModelSeed :
          LET m == ModelNew(width, width, n_particles, n_populations, DIFFUSIVITY, seed)
          IN  /\ grids = m.grids
              /\ agents = m.agents
              /\ attraction_table = m.attraction_table
              /\ diffusivity = m.diffusivity
    /\ iteration = 0
    /\ img_data_vec = <<>>
    /\ pc = "idle"
    /\ pending = {}
    /\ call = Idle
    /\ panicked = FALSE

\* The history kept for one iteration of run, at its start.
IterationStart(steps, i, post) ==
    [op |-> "run", steps |-> steps, i |-> i, k |-> 0,
     combined |-> FALSE, moved |-> {}, deposited |-> {}, diffused |-> {},
     read |-> <<>>, post |-> post]

\* model.run(steps): entry, up to the first statement of the loop body.
RunCall ==
    /\ pc = "idle"
    /\ ~panicked
    /\ \E steps \in 1..(MaxIterations - iteration) :
          call' = IterationStart(steps, 0, <<>>)
    /\ pc' = "combine"
    /\ UNCHANGED <<grids, agents, attraction_table, diffusivity, iteration,
                   img_data_vec, pending, panicked>>

\* combine(grids, &self.attraction_table), then the agents' tasks are forked.
CombineStep ==
    /\ pc = "combine"
    /\ grids' = Combine(grids, attraction_table)
    /\ call' = [call EXCEPT !.combined = TRUE, !.read = Fields(grids)]
    /\ pc' = "agents"
    /\ pending' = 1..Len(agents)
    /\ UNCHANGED <<agents, attraction_table, diffusivity, iteration,
                   img_data_vec, panicked>>

\* A mutant of AgentTask: the task also deposits at the agent's new
\* position, writing the shared grid from inside the parallel region.
AgentTaskDeposits ==
    /\ pc = "agents"
    /\ \E a \in pending :
          /\ \E updated \in AgentUpdate(grids, agents[a]) :
                /\ agents' = [agents EXCEPT ![a] = updated]
                /\ grids' = [grids EXCEPT ![updated.population_id + 1] =
                                 Deposit(@, updated.x, updated.y)]
          /\ pending' = pending \ {a}
          /\ call' = [call EXCEPT !.moved = @ \cup {a}]
    /\ UNCHANGED <<attraction_table, diffusivity, iteration,
                   img_data_vec, pc, panicked>>

\* One task of self.agents.par_iter_mut().for_each.
AgentTask ==
    /\ pc = "agents"
    /\ \E a \in pending :
          /\ \E updated \in AgentUpdate(grids, agents[a]) :
                agents' = [agents EXCEPT ![a] = updated]
          /\ pending' = pending \ {a}
          /\ call' = [call EXCEPT !.moved = @ \cup {a}]
    /\ UNCHANGED <<grids, attraction_table, diffusivity, iteration,
                   img_data_vec, pc, panicked>>

\* for_each over the agents returns; the deposit loop starts.
AgentsJoin ==
    /\ pc = "agents"
    /\ JoinDone(pending)
    /\ pc' = "deposit"
    /\ pending' = {}
    /\ UNCHANGED <<grids, agents, attraction_table, diffusivity, iteration,
                   img_data_vec, call, panicked>>

\* One iteration of `for agent in self.agents.iter()`: a deposit.
DepositStep ==
    /\ pc = "deposit"
    /\ call.k < Len(agents)
    /\ LET agent == agents[call.k + 1]
           g == agent.population_id + 1
       IN  grids' = [grids EXCEPT ![g] = Deposit(grids[g], agent.x, agent.y)]
    /\ call' = [call EXCEPT !.k = @ + 1, !.deposited = @ \cup {call.k + 1}]
    /\ UNCHANGED <<agents, attraction_table, diffusivity, iteration,
                   img_data_vec, pc, pending, panicked>>

\* The deposit loop ends; the grids' diffusion tasks are forked.
DepositEnd ==
    /\ pc = "deposit"
    /\ call.k = Len(agents)
    /\ pc' = "diffuse"
    /\ pending' = 1..Len(grids)
    /\ UNCHANGED <<grids, agents, attraction_table, diffusivity, iteration,
                   img_data_vec, call, panicked>>

\* One task of self.grids.par_iter_mut().for_each: grid.diffuse(diffusivity).
DiffuseTask ==
    /\ pc = "diffuse"
    /\ ~panicked
    /\ \E g \in pending :
          /\ pending' = pending \ {g}
          /\ IF DiffusePanics(grids[g], diffusivity)
             THEN /\ panicked' = TRUE
                  /\ UNCHANGED <<grids, call>>
             ELSE /\ panicked' = FALSE
                  /\ grids' = [grids EXCEPT ![g] = Diffuse(grids[g], diffusivity)]
                  /\ call' = [call EXCEPT !.diffused = @ \cup {g}]
    /\ UNCHANGED <<agents, attraction_table, diffusivity, iteration,
                   img_data_vec, pc>>

\* for_each over the grids returns.
DiffuseJoin ==
    /\ pc = "diffuse"
    /\ ~panicked
    /\ JoinDone(pending)
    /\ pc' = "save"
    /\ pending' = {}
    /\ UNCHANGED <<grids, agents, attraction_table, diffusivity, iteration,
                   img_data_vec, call, panicked>>

\* self.save_image_data(); self.iteration += 1; then the next iteration of
\* the loop, or the return of run.
SaveStep ==
    /\ pc = "save"
    /\ img_data_vec' = Append(img_data_vec, ImgData(grids, iteration))
    /\ iteration' = iteration + 1
    /\ IF call.i + 1 < call.steps
       THEN /\ pc' = "combine"
            /\ call' = IterationStart(call.steps, call.i + 1, Fields(grids))
       ELSE /\ pc' = "idle"
            /\ call' = Idle
    /\ UNCHANGED <<grids, agents, attraction_table, diffusivity, pending, panicked>>

\* model.flush_image_data()
FlushImageData ==
    /\ pc = "idle"
    /\ img_data_vec # <<>>
    /\ img_data_vec' = <<>>
    /\ UNCHANGED <<grids, agents, attraction_table, diffusivity, iteration,
                   pc, pending, call, panicked>>

Next ==
    \/ RunCall
    \/ CombineStep
    \/ AgentTask
    \/ AgentsJoin
    \/ DepositStep
    \/ DepositEnd
    \/ DiffuseTask
    \/ DiffuseJoin
    \/ SaveStep
    \/ FlushImageData

Spec == Init /\ [][Next]_vars

\* C9: after Agent::rotate_and_move, for any turning direction, any
\* rotation_angle and step_distance PopulationConfig::new samples (a step
\* shorter than the grid's dimensions), and any agent that started in range,
\* the angle lies in [0, TAU) and the position in [0, width) x [0, height),
\* upper bounds exclusive, in every state reached by run.
C9_AgentsInRange ==
    \A a \in 1..Len(agents) :
        LET agent == agents[a]
            grid == grids[agent.population_id + 1]
        IN  (/\ grid.config.step_distance < AsF32(grid.width)
             /\ grid.config.step_distance < AsF32(grid.height)) =>
                /\ 0 <= agent.angle /\ agent.angle < TAU
                /\ 0 <= agent.x /\ agent.x < AsF32(grid.width)
                /\ 0 <= agent.y /\ agent.y < AsF32(grid.height)

\* The mix buffer of grid g as combine leaves it when it reads `fields`.
Mixed(fields, g) ==
    [c \in 1..Len(fields[g]) |->
        RSumSeq([j \in 1..Len(fields) |-> RMul(attraction_table[g][j], fields[j][c])])]

\* C10: in every iteration of Model::run the phases occur strictly in the
\* order combine, all agent updates, all deposits, all grid diffusions: no
\* agent senses before combine has written every mix buffer, no deposit
\* happens before every agent has moved, no diffusion starts before every
\* deposit is done, and the combine of iteration n+1 reads exactly the
\* post-diffusion fields of iteration n.
C10_PhaseOrder ==
    call.op = "run" =>
        /\ call.moved # {} => call.combined
        /\ pc = "agents" =>
              \A g \in 1..Len(grids) :
                  /\ grids[g].data = call.read[g]
                  /\ grids[g].buf = Mixed(call.read, g)
        /\ call.deposited # {} => call.moved = 1..Len(agents)
        /\ call.diffused # {} => call.deposited = 1..Len(agents)
        /\ pc = "save" =>
              /\ call.diffused = 1..Len(grids)
              /\ call.deposited = 1..Len(agents)
        /\ (call.i > 0 /\ call.combined) => call.read = call.post
        /\ (call.i > 0 /\ ~call.combined) => call.post = Fields(grids)

\* The second iteration of a run with two agents and two grids has reached
\* its diffusions.
C10_Witness ==
    /\ call.op = "run"
    /\ call.i = 1
    /\ call.combined
    /\ call.read = call.post
    /\ call.diffused # {}
    /\ call.deposited = 1..Len(agents)
    /\ Len(agents) >= 2
    /\ Len(grids) >= 2

(***************************************************************************)
(* SpecQuantile: one call of Grid::quantile on a grid with power-of-two    *)
(* dimensions and an arbitrary field.                                      *)
(***************************************************************************)
\* Grids are 2^a by 2^b cells for a, b in 0..MaxQuantileLog.
MaxQuantileLog == 1
\* The number of random streams the fields are drawn from.
MaxQuantileSeed == 3
\* fraction is k / d for d in 1..MaxFractionDen and k in 0..d.
MaxFractionDen == 5

\* f32::EPSILON, 2^-23
EPSILON == Rat(1, 2 ^ 23)

\* f32::abs
RAbs(a) == <<Abs(a[1]), a[2]>>

\* `v as usize` of an f32 v (exact rational): truncation toward zero,
\* negative values saturate to 0.
RAsUsize(a) == IF a[1] <= 0 THEN 0 ELSE a[1] \div a[2]

\* A mutant of QuantileIndex: the product is rounded up, then clamped.
QuantileIndexCeil(len, fraction) ==
    LET p == RMul(RInt(len), fraction)
        c == IF p[1] % p[2] = 0 THEN p[1] \div p[2] ELSE p[1] \div p[2] + 1
    IN  IF c > len - 1 THEN len - 1 ELSE c

\* Grid::quantile: the `index` it computes for a field of len cells.
QuantileIndex(len, fraction) ==
    IF RLess(RAbs(RSub(fraction, One)), EPSILON)
    THEN len - 1
    ELSE RAsUsize(RMul(RInt(len), fraction))

\* seq with v inserted before the first element that is not less than v.
RECURSIVE InsertSorted(_, _)
InsertSorted(seq, v) ==
    IF seq = <<>> THEN <<v>>
    ELSE IF RLess(Head(seq), v) THEN <<Head(seq)>> \o InsertSorted(Tail(seq), v)
    ELSE <<v>> \o seq

RECURSIVE SortedSeq(_)
SortedSeq(seq) ==
    IF seq = <<>> THEN <<>> ELSE InsertSorted(SortedSeq(Tail(seq)), Head(seq))

\* A mutant of SelectNth: the slice is left in its original order.
SelectNthKeep(seq, index) == seq

\* slice::select_nth_unstable_by(index, partial_cmp): the slice reordered so
\* that the element at index is the one a sort puts there, none before it
\* greater and none after it less.
SelectNth(seq, index) == SortedSeq(seq)

\* Grid::quantile(fraction): the value returned.
Quantile(g, fraction) ==
    LET index == QuantileIndex(Len(g.data), fraction)
        sorted == SelectNth(g.data, index)
    IN  sorted[index + 1]

\* select_nth_unstable_by panics when index is not below the length.
QuantilePanics(g, fraction) ==
    QuantileIndex(Len(g.data), fraction) >= Len(g.data)

\* Fields of n cells: random streams, and the n values k / (n + 1) in
\* several orders.
QuantileFields(n) ==
    {SampleIter(seed, n) : seed \in 0..MaxQuantileSeed}
    \cup {[k \in 1..n |-> Rat((k * m) % (n + 1), n + 1)] : m \in 1..n}

\* The fractions of [0, 1] quantile is called with.
Fractions == UNION {{Rat(k, d) : k \in 0..d} : d \in 1..MaxFractionDen}

InitQuantile ==
    /\ \E a \in 0..MaxQuantileLog, b \in 0..MaxQuantileLog :
          \E field \in QuantileFields(2 ^ a * 2 ^ b) :
              grids = <<[GridNew(2 ^ a, 2 ^ b, 0, DefaultConfig) EXCEPT !.data = field]>>
    /\ agents = <<>>
    /\ attraction_table = <<>>
    /\ diffusivity = 1
    /\ iteration = 0
    /\ img_data_vec = <<>>
    /\ pc = "idle"
    /\ pending = {}
    /\ call = NoCall
    /\ panicked = FALSE

\* grid.quantile(fraction), which borrows the grid immutably.
QuantileCall ==
    /\ call.op = "none"
    /\ ~panicked
    /\ \E fraction \in Fractions :
          IF QuantilePanics(grids[1], fraction)
          THEN /\ panicked' = TRUE
               /\ call' = [op |-> "quantile", fraction |-> fraction,
                           data |-> grids[1].data, ret |-> Zero]
          ELSE /\ panicked' = FALSE
               /\ call' = [op |-> "quantile", fraction |-> fraction,
                           data |-> grids[1].data,
                           ret |-> Quantile(grids[1], fraction)]
    /\ UNCHANGED <<grids, agents, attraction_table, diffusivity, iteration,
                   img_data_vec, pc, pending>>

NextQuantile == QuantileCall

SpecQuantile == InitQuantile /\ [][NextQuantile]_vars

\* v is the order statistic of rank index idx (0-based) of field: fewer than
\* idx + 1 cells are below v and at least idx + 1 cells are not above it.
IsOrderStatistic(field, idx, v) ==
    /\ \E k \in 1..Len(field) : field[k] = v
    /\ Cardinality({k \in 1..Len(field) : RLess(field[k], v)}) <= idx
    /\ Cardinality({k \in 1..Len(field) : ~RLess(v, field[k])}) > idx

\* The least whole number not below the non-negative rational a.
RCeil(a) == IF a[1] % a[2] = 0 THEN a[1] \div a[2] ELSE a[1] \div a[2] + 1

Min(a, b) == IF a < b THEN a ELSE b

\* C11: Grid::quantile(fraction) returns the order statistic of the field
\* at rank index ceil(fraction * N) clamped to N - 1 (N the number of cells),
\* for every fraction in [0, 1].
C11_QuantileCeil ==
    call.op = "quantile" =>
        LET N == Len(call.data)
        IN  /\ ~panicked
            /\ IsOrderStatistic(call.data,
                   Min(RCeil(<<N * call.fraction[1], call.fraction[2]>>), N - 1),
                   call.ret)

\* C11 (amended): Grid::quantile(fraction) returns the order statistic of
\* the field at rank index floor(fraction * N), and at N - 1 for fraction 1,
\* for every fraction in [0, 1].
C11_QuantileFloor ==
    call.op = "quantile" =>
        LET N == Len(call.data)
        IN  /\ ~panicked
            /\ IsOrderStatistic(call.data,
                   IF call.fraction = One THEN N - 1
                   ELSE (N * call.fraction[1]) \div call.fraction[2],
                   call.ret)

\* quantile(1/3) of a four-cell field with four distinct values: the rank
\* index is 1, not 2.
C11_Witness ==
    /\ call.op = "quantile"
    /\ Len(call.data) = 4
    /\ Cardinality({call.data[k] : k \in 1..4}) = 4
    /\ call.fraction = Rat(1, 3)
    /\ IsOrderStatistic(call.data, 1, call.ret)
    /\ ~IsOrderStatistic(call.data, 2, call.ret)

\* C12: for every field content, quantile(1.0) returns the maximum field
\* value and quantile(0.0) the minimum, and quantile leaves the field
\* itself unchanged.
C12_QuantileExtremes ==
    call.op = "quantile" =>
        /\ grids[1].data = call.data
        /\ call.fraction = One =>
              /\ \E k \in 1..Len(call.data) : call.data[k] = call.ret
              /\ \A k \in 1..Len(call.data) : ~RLess(call.ret, call.data[k])
        /\ call.fraction = Zero =>
              /\ \E k \in 1..Len(call.data) : call.data[k] = call.ret
              /\ \A k \in 1..Len(call.data) : ~RLess(call.data[k], call.ret)

\* quantile(1.0) has returned the maximum of a field whose first cell is not
\* its maximum and whose last cell is not either.
C12_Witness ==
    /\ call.op = "quantile"
    /\ call.fraction = One
    /\ Len(call.data) = 4
    /\ RLess(call.data[1], call.ret)
    /\ RLess(call.data[4], call.ret)

\* C13: end-to-end determinism: two executions of Model::new and run with
\* the same generator state and the same configuration (one population)
\* reach identical agent positions, angles and field values, however the
\* parallel agent tasks are scheduled: from no state of a run does an agent
\* task have two different outcomes.
C13_Deterministic ==
    (call.op = "run" /\ pc = "agents" /\ Len(grids) = 1) =>
        \A a \in pending : Cardinality(AgentUpdate(grids, agents[a])) = 1

\* The 1-based cell of grid g that holds the position of agent a, for a
\* position with non-negative coordinates.
HomeCell(g, a) ==
    (Floor(agents[a].y) % grids[g].height) * grids[g].width
        + (Floor(agents[a].x) % grids[g].width) + 1

\* The sum of field[lo..hi], by halves.
RECURSIVE SumRange(_, _, _)
SumRange(field, lo, hi) ==
    IF lo > hi THEN Zero
    ELSE IF lo = hi THEN field[lo]
    ELSE RAdd(SumRange(field, lo, (lo + hi) \div 2),
              SumRange(field, (lo + hi) \div 2 + 1, hi))

\* The agents of population g (1-based) among the set `as`.
AgentsOf(g, as) == {a \in as : agents[a].population_id + 1 = g}

\* C14: in the deposit phase each agent adds exactly its own population's
\* deposition_amount to exactly one cell of its home grid's data, the cell
\* of its already-updated position, and changes no other cell, no other
\* grid and no mix buffer; hence the pre-diffusion total of grid p rises by
\* (number of agents of population p) * deposition_amount.
C14_DepositPhase ==
    (call.op = "run" /\ (pc = "deposit" \/ (pc = "diffuse" /\ call.diffused = {}))) =>
        \A g \in 1..Len(grids) :
            /\ grids[g].buf = Mixed(call.read, g)
            /\ \A c \in 1..Len(grids[g].data) :
                  grids[g].data[c] =
                      RAdd(call.read[g][c],
                           RMul(RInt(Cardinality({a \in AgentsOf(g, call.deposited) :
                                                     HomeCell(g, a) = c})),
                                grids[g].config.deposition_amount))
            /\ pc = "diffuse" =>
                  SumRange(grids[g].data, 1, Len(grids[g].data)) =
                      RAdd(SumRange(call.read[g], 1, Len(call.read[g])),
                           RMul(RInt(Cardinality(AgentsOf(g, 1..Len(agents)))),
                                grids[g].config.deposition_amount))

\* The deposit loop of an iteration has ended after two agents of one
\* population deposited into the same cell, which already held a deposit of
\* an earlier iteration or a non-zero value.
C14_Witness ==
    /\ call.op = "run"
    /\ pc = "diffuse"
    /\ call.diffused = {}
    /\ call.deposited = 1..Len(agents)
    /\ \E a, b \in 1..Len(agents) :
          /\ a # b
          /\ agents[a].population_id = agents[b].population_id
          /\ HomeCell(agents[a].population_id + 1, a) = HomeCell(agents[b].population_id + 1, b)
          /\ Len(grids[agents[a].population_id + 1].data) > 1
          /\ call.read[agents[a].population_id + 1][HomeCell(agents[a].population_id + 1, a)] # Zero

(***************************************************************************)
(* SpecAccess: one call of Grid::get_buf or Grid::deposit on a grid with   *)
(* power-of-two dimensions, at coordinates of any magnitude.               *)
(***************************************************************************)
\* Grids are 2^a by 2^b cells for a, b in 0..MaxAccessLog.
MaxAccessLog == 2
\* Coordinates are 0 and +-2^e (less one step, or exactly) for e in
\* 0..MaxCoordExp, in whole units; past usize::MAX from e = 16 on.
MaxCoordExp == 18

AccessCoords ==
    {0} \cup {s * (2 ^ e * Scale - o) : s \in {-1, 1}, e \in 0..MaxCoordExp, o \in {0, 1}}

\* Indexing a Vec panics when the index is not below its length.
IndexOutOfBounds(vec, idx) == idx < 0 \/ idx >= Len(vec)

InitAccess ==
    /\ \E a \in 0..MaxAccessLog, b \in 0..MaxAccessLog :
          grids = <<[GridNew(2 ^ a, 2 ^ b, 1, DefaultConfig)
                        EXCEPT !.buf = SampleIter(2, 2 ^ a * 2 ^ b)]>>
    /\ agents = <<>>
    /\ attraction_table = <<>>
    /\ diffusivity = 1
    /\ iteration = 0
    /\ img_data_vec = <<>>
    /\ pc = "idle"
    /\ pending = {}
    /\ call = NoCall
    /\ panicked = FALSE

\* grid.get_buf(x, y)
GetBufCall ==
    /\ call.op = "none"
    /\ ~panicked
    /\ \E x \in AccessCoords, y \in AccessCoords :
          LET idx == Index(grids[1], x, y)
          IN  IF IndexOutOfBounds(grids[1].buf, idx)
              THEN /\ panicked' = TRUE
                   /\ call' = [op |-> "get_buf", x |-> x, y |-> y, idx |-> idx,
                               ret |-> Zero]
              ELSE /\ panicked' = FALSE
                   /\ call' = [op |-> "get_buf", x |-> x, y |-> y, idx |-> idx,
                               ret |-> GetBuf(grids[1], x, y)]
    /\ UNCHANGED <<grids, agents, attraction_table, diffusivity, iteration,
                   img_data_vec, pc, pending>>

\* grid.deposit(x, y)
DepositAccessCall ==
    /\ call.op = "none"
    /\ ~panicked
    /\ \E x \in AccessCoords, y \in AccessCoords :
          LET idx == Index(grids[1], x, y)
          IN  /\ call' = [op |-> "deposit", x |-> x, y |-> y, idx |-> idx,
                          ret |-> Zero]
              /\ IF IndexOutOfBounds(grids[1].data, idx)
                 THEN /\ panicked' = TRUE
                      /\ grids' = grids
                 ELSE /\ panicked' = FALSE
                      /\ grids' = [grids EXCEPT ![1] = Deposit(grids[1], x, y)]
    /\ UNCHANGED <<agents, attraction_table, diffusivity, iteration,
                   img_data_vec, pc, pending>>

NextAccess == GetBufCall \/ DepositAccessCall

SpecAccess == InitAccess /\ [][NextAccess]_vars

\* C15: Grid::get_buf(x, y) and Grid::deposit(x, y) never fail for any
\* finite x, y, arbitrarily large positive or negative: the computed flat
\* index always lies in [0, width * height).
C15_AccessInRange ==
    call.op \in {"get_buf", "deposit"} =>
        /\ ~panicked
        /\ 0 <= call.idx
        /\ call.idx < grids[1].width * grids[1].height

\* get_buf or deposit has been called with x beyond usize::MAX and y
\* below minus the height, on a grid of more than one row and column.
C15_Witness ==
    /\ call.op \in {"get_buf", "deposit"}
    /\ grids[1].width > 1 /\ grids[1].height > 1
    /\ call.x > USIZE_MAX * Scale
    /\ call.y < 0 - AsF32(grids[1].height) - Scale
    /\ call.idx = grids[1].width - 1

\* C16: every iteration of Model::run increases the iteration counter by
\* exactly one, nothing ever decreases or resets it (flush_image_data
\* included), and the snapshot pushed in an iteration carries the counter
\* value from before that increment, so successive snapshots have strictly
\* increasing, consecutive iteration indices.
C16_IterationCounter ==
    [][/\ iteration' >= iteration
       /\ iteration' # iteration =>
             /\ iteration' = iteration + 1
             /\ pc = "save"
             /\ Len(img_data_vec') = Len(img_data_vec) + 1
       /\ (call.op = "run" /\ (call'.op # "run" \/ call'.i # call.i)) =>
             iteration' = iteration + 1
       /\ img_data_vec' # img_data_vec =>
             \/ /\ img_data_vec' = <<>>
                /\ iteration' = iteration
                /\ pc = "idle"
             \/ /\ Len(img_data_vec') = Len(img_data_vec) + 1
                /\ \A k \in 1..Len(img_data_vec) : img_data_vec'[k] = img_data_vec[k]
                /\ img_data_vec'[Len(img_data_vec')].iteration = iteration
                /\ iteration' = iteration + 1
       /\ \A k \in 1..(Len(img_data_vec') - 1) :
             img_data_vec'[k + 1].iteration = img_data_vec'[k].iteration + 1
      ]_vars

\* After a run, a flush and a second run: one snapshot, of the second
\* iteration, and the counter at 2.
C16_Witness ==
    /\ iteration = 2
    /\ Len(img_data_vec) = 1
    /\ img_data_vec[1].iteration = 1
    /\ pc = "idle"

(***************************************************************************)
(* SpecPick: one call of Model::pick_direction on arbitrary sensor         *)
(* readings.                                                               *)
(***************************************************************************)
\* Sensor readings are k / 2 for k in -MaxTrail..MaxTrail.
MaxTrail == 2

Trails == {Rat(k, 2) : k \in (0 - MaxTrail)..MaxTrail}

InitPick ==
    /\ grids = <<>>
    /\ agents = <<>>
    /\ attraction_table = <<>>
    /\ diffusivity = 1
    /\ iteration = 0
    /\ img_data_vec = <<>>
    /\ pc = "idle"
    /\ pending = {}
    /\ call = NoCall
    /\ panicked = FALSE

\* Model::pick_direction(center, left, right, rng)
PickDirectionCall ==
    /\ call.op = "none"
    /\ \E center \in Trails, left \in Trails, right \in Trails :
          \E ret \in PickDirection(center, left, right) :
              call' = [op |-> "pick_direction", center |-> center,
                       left |-> left, right |-> right, ret |-> ret,
                       choices |-> PickDirection(center, left, right)]
    /\ UNCHANGED <<grids, agents, attraction_table, diffusivity, iteration,
                   img_data_vec, pc, pending, panicked>>

NextPick == PickDirectionCall

SpecPick == InitPick /\ [][NextPick]_vars

\* a < b for rationals in lowest terms with positive denominators.
Below(a, b) == a[1] * b[2] < b[1] * a[2]

\* C17: pick_direction returns 0 when center >= left and center >= right
\* with center strictly greater than at least one of them; a random element
\* of {-1, +1} when center is strictly less than both; and otherwise +1 if
\* left < right, -1 if right < left and 0 if they are equal; for all
\* orderings of the three values, ties such as center = left > right
\* included.
C17_PickDirectionTies ==
    call.op = "pick_direction" =>
        LET c == call.center
            l == call.left
            r == call.right
        IN  /\ call.ret \in call.choices
            /\ call.choices =
                  IF ~Below(c, l) /\ ~Below(c, r) /\ (Below(l, c) \/ Below(r, c))
                  THEN {0}
                  ELSE IF Below(c, l) /\ Below(c, r) THEN {-1, 1}
                  ELSE IF Below(l, r) THEN {1}
                  ELSE IF Below(r, l) THEN {-1}
                  ELSE {0}

\* C17 (amended): pick_direction returns 0 when center is strictly greater
\* than both left and right; a random element of {-1, +1} when center is
\* strictly less than both; and otherwise +1 if left < right, -1 if
\* right < left and 0 if they are equal; so center = left > right gives -1
\* and center = right > left gives +1.
C17_PickDirection ==
    call.op = "pick_direction" =>
        LET c == call.center
            l == call.left
            r == call.right
        IN  /\ call.ret \in call.choices
            /\ call.choices =
                  IF Below(l, c) /\ Below(r, c) THEN {0}
                  ELSE IF Below(c, l) /\ Below(c, r) THEN {-1, 1}
                  ELSE IF Below(l, r) THEN {1}
                  ELSE IF Below(r, l) THEN {-1}
                  ELSE {0}
            /\ (c = l /\ Below(r, l)) => call.ret = -1
            /\ (c = r /\ Below(l, r)) => call.ret = 1

\* pick_direction has been called with center = left > right and has
\* returned -1.
C17_Witness ==
    /\ call.op = "pick_direction"
    /\ call.center = call.left
    /\ Below(call.right, call.left)
    /\ call.ret = -1

\* C18: the agent-update phase is race-free: each parallel task writes only
\* its own agent's x, y and angle and only reads grids (mix buffers and
\* configs); no grid data or buf changes during the phase; and for fixed
\* per-agent direction choices the agents' state after the phase is the
\* same for every interleaving: each task turns the state its agent had
\* before the phase, under the buffers combine wrote, into its new state.
C18_AgentPhaseRaceFree ==
    [][pc = "agents" =>
          /\ grids' = grids
          /\ Len(agents') = Len(agents)
          /\ call'.moved # call.moved =>
                \E a \in pending :
                    LET config == grids[agents[a].population_id + 1].config
                        grid == grids[agents[a].population_id + 1]
                    IN  /\ a \notin call.moved
                        /\ call'.moved = call.moved \cup {a}
                        /\ pending' = pending \ {a}
                        /\ \A b \in (1..Len(agents)) \ {a} : agents'[b] = agents[b]
                        /\ agents'[a].population_id = agents[a].population_id
                        /\ agents'[a].i = agents[a].i
                        /\ \E d \in {-1, 0, 1} :
                              agents'[a] = RotateAndMove(agents[a], d,
                                               config.rotation_angle,
                                               config.step_distance,
                                               grid.width, grid.height)
                        /\ \A g \in 1..Len(grids) :
                              /\ grids[g].buf = Mixed(call.read, g)
                              /\ grids[g].data = call.read[g]
          /\ call'.moved = call.moved => agents' = agents
      ]_vars

\* The task of the second agent has run before the task of the first, on
\* two populations.
C18_Witness ==
    /\ call.op = "run"
    /\ pc = "agents"
    /\ call.moved = {2}
    /\ pending = {1}
    /\ Len(grids) = 2

\* Every population_id is a valid grid index, agents are numbered in
\* order, and each population owns ceil(n_particles / n_populations) agents
\* for an n_particles Model::new was called with.
PopulationsWellFormed ==
    /\ \A a \in 1..Len(agents) :
          /\ agents[a].population_id \in 0..(Len(grids) - 1)
          /\ agents[a].i = a - 1
    /\ \E n_particles \in 1..MaxParticles :
          \A g \in 1..Len(grids) :
              Cardinality(AgentsOf(g, 1..Len(agents))) = RCeil(<<n_particles, Len(grids)>>)
    /\ Len(attraction_table) = Len(grids)
    /\ \A g \in 1..Len(grids) : Len(attraction_table[g]) = Len(grids)

\* C19: across any number of iterations of Model::run the number of agents,
\* each agent's population_id and index i, the attraction table, and every
\* grid's width, height and PopulationConfig stay exactly as set by
\* Model::new; every population_id is a valid grid index and each
\* population owns the same number of agents, ceil(n_particles /
\* n_populations).
C19_FixedAfterNew ==
    /\ []PopulationsWellFormed
    /\ [][/\ Len(agents') = Len(agents)
          /\ \A a \in 1..Len(agents) :
                /\ agents'[a].population_id = agents[a].population_id
                /\ agents'[a].i = agents[a].i
          /\ attraction_table' = attraction_table
          /\ Len(grids') = Len(grids)
          /\ \A g \in 1..Len(grids) :
                /\ grids'[g].width = grids[g].width
                /\ grids'[g].height = grids[g].height
                /\ grids'[g].config = grids[g].config
         ]_vars

\* Two iterations have been made on two populations of one agent each, and
\* the agents have moved and the fields changed meanwhile.
C19_Witness ==
    /\ iteration = 2
    /\ Len(grids) = 2
    /\ Len(agents) = 2
    /\ agents[1].population_id = 0
    /\ agents[2].population_id = 1
    /\ Len(img_data_vec) = 2
    /\ img_data_vec[1].grids # grids

\* The three sensor points (center, left, right) the agent task computes.
SensorPoints(grid, agent) ==
    LET sensor_distance == grid.config.sensor_distance
        sensor_angle == grid.config.sensor_angle
    IN  {[x |-> agent.x + Cos(angle) * sensor_distance,
          y |-> agent.y + Sin(angle) * sensor_distance] :
            angle \in {agent.angle, agent.angle - sensor_angle,
                       agent.angle + sensor_angle}}

\* C20: in every iteration of Model::run, for every grid size Grid::new
\* accepts and every sensor_distance PopulationConfig::new can sample, each
\* of an agent's three sensor points (x, y) satisfies x >= -width and
\* y >= -height, so that get_buf reads the toroidally wrapped cell
\* (floor(x) mod width, floor(y) mod height) rather than a saturated cell.
C20_SensorsWrap ==
    (call.op = "run" /\ pc = "agents") =>
        \A a \in pending :
            LET grid == grids[agents[a].population_id + 1]
            IN  \A p \in SensorPoints(grid, agents[a]) :
                    /\ p.x >= 0 - AsF32(grid.width)
                    /\ p.y >= 0 - AsF32(grid.height)
                    /\ GetBuf(grid, p.x, p.y) =
                           grid.buf[(Floor(p.y) % grid.height) * grid.width
                                    + (Floor(p.x) % grid.width) + 1]

(***************************************************************************)
(* SpecCl: Model::new, then Model::run_cl.  The loop body of run_cl shares *)
(* its combine, deposit and diffusion statements with run; the agent       *)
(* phase reads the arrays run_cl computes before it.                       *)
(***************************************************************************)
\* The f32 value of an angle (radians) given in quarter turns, in 1/Scale:
\* what an angle is when it is used as a distance.
AngleAsF32(angle) == (angle * 1571 * Scale) \div 1000

\* The f32 product of an angle and a distance, as an angle in quarter
\* turns; exact for the whole distances of SensorDistances.
AngleTimes(angle, distance) == angle * (distance \div Scale)

\* The locals of run_cl before its loop: the clone agents_list and the
\* per-agent lists of configuration values.
ClLocals ==
    [agents_list |-> agents,
     sensor_distance_list |->
        [k \in 1..Len(agents) |-> grids[agents[k].population_id + 1].config.sensor_distance],
     sensor_angle_list |->
        [k \in 1..Len(agents) |-> grids[agents[k].population_id + 1].config.sensor_angle],
     rotation_angle_list |->
        [k \in 1..Len(agents) |-> grids[agents[k].population_id + 1].config.rotation_angle],
     step_distance_list |->
        [k \in 1..Len(agents) |-> grids[agents[k].population_id + 1].config.step_distance]]

\* The arrays xc, yc, xl, yl, xr, yr of one iteration of run_cl, computed
\* from agents_list.
ClSensors(locals) ==
    [k \in 1..Len(locals.agents_list) |->
        LET agent == locals.agents_list[k]
            sensor_distance == locals.sensor_distance_list[k]
            sensor_angle == locals.sensor_angle_list[k]
            agent_add_sens == agent.angle + sensor_angle
            agent_sub_sens == agent.angle - sensor_angle
            agent_add_sens_mul == AngleTimes(agent_add_sens, sensor_distance)
            agent_sub_sens_mul == AngleTimes(agent_sub_sens, sensor_distance)
        IN  [xc |-> agent.x + Cos(agent.angle) * sensor_distance,
             yc |-> agent.y + Sin(agent.angle) * sensor_distance,
             xl |-> agent.x + AsF32(Sin(agent_sub_sens_mul)),
             yl |-> agent.y + AsF32(Sin(agent_sub_sens_mul)),
             xr |-> agent.x + AsF32(Sin(agent_add_sens_mul)),
             yr |-> agent.y + AsF32(Sin(agent_add_sens_mul))]]

\* The closure of self.agents.par_iter_mut().for_each in run_cl: the agents
\* it can leave in place of `agent`.
AgentUpdateCl(gs, agent, locals, sensors) ==
    LET i == agent.i
        rotation_angle == locals.rotation_angle_list[i + 1]
        step_distance == AngleAsF32(locals.rotation_angle_list[i + 1])
        grid == gs[agent.population_id + 1]
        trail_c == GetBuf(grid, sensors[i + 1].xc, sensors[i + 1].yc)
        trail_l == GetBuf(grid, sensors[i + 1].xl, sensors[i + 1].yl)
        trail_r == GetBuf(grid, sensors[i + 1].xr, sensors[i + 1].yr)
    IN  {RotateAndMove(agent, direction, rotation_angle, step_distance,
                       grid.width, grid.height) :
            direction \in PickDirection(trail_c, trail_l, trail_r)}

\* The history kept for one iteration of run_cl, at its start, with the
\* locals of run_cl.
ClIterationStart(steps, i, post, locals) ==
    [op |-> "run_cl", steps |-> steps, i |-> i, k |-> 0,
     combined |-> FALSE, moved |-> {}, deposited |-> {}, diffused |-> {},
     read |-> <<>>, post |-> post, locals |-> locals, sensors |-> <<>>]

\* model.run_cl(steps): entry, up to the first statement of the loop body.
RunClCall ==
    /\ pc = "idle"
    /\ ~panicked
    /\ grids' = Combine(grids, attraction_table)
    /\ \E steps \in 1..(MaxIterations - iteration) :
          call' = ClIterationStart(steps, 0, <<>>, ClLocals)
    /\ pc' = "combine"
    /\ UNCHANGED <<agents, attraction_table, diffusivity, iteration,
                   img_data_vec, pending, panicked>>

\* combine, the sensor arrays, then the agents' tasks are forked.
ClCombineStep ==
    /\ pc = "combine"
    /\ grids' = Combine(grids, attraction_table)
    /\ call' = [call EXCEPT !.combined = TRUE, !.read = Fields(grids),
                            !.sensors = ClSensors(call.locals)]
    /\ pc' = "agents"
    /\ pending' = 1..Len(agents)
    /\ UNCHANGED <<agents, attraction_table, diffusivity, iteration,
                   img_data_vec, panicked>>

\* One task of self.agents.par_iter_mut().for_each in run_cl.
ClAgentTask ==
    /\ pc = "agents"
    /\ \E a \in pending :
          /\ \E updated \in AgentUpdateCl(grids, agents[a], call.locals, call.sensors) :
                agents' = [agents EXCEPT ![a] = updated]
          /\ pending' = pending \ {a}
          /\ call' = [call EXCEPT !.moved = @ \cup {a}]
    /\ UNCHANGED <<grids, attraction_table, diffusivity, iteration,
                   img_data_vec, pc, panicked>>

\* self.save_image_data(); self.iteration += 1; then the next iteration of
\* the loop of run_cl, or its return.
ClSaveStep ==
    /\ pc = "save"
    /\ img_data_vec' = Append(img_data_vec, ImgData(grids, iteration))
    /\ iteration' = iteration + 1
    /\ IF call.i + 1 < call.steps
       THEN /\ pc' = "combine"
            /\ call' = ClIterationStart(call.steps, call.i + 1, Fields(grids),
                                        call.locals)
       ELSE /\ pc' = "idle"
            /\ call' = Idle
    /\ UNCHANGED <<grids, agents, attraction_table, diffusivity, pending, panicked>>

NextCl ==
    \/ RunClCall
    \/ ClCombineStep
    \/ ClAgentTask
    \/ AgentsJoin
    \/ DepositStep
    \/ DepositEnd
    \/ DiffuseTask
    \/ DiffuseJoin
    \/ ClSaveStep

SpecCl == Init /\ [][NextCl]_vars

\* C21: Model::run_cl(steps) performs the same per-iteration agent update
\* as Model::run(steps): in each iteration the three sensor points are
\* computed from the agent's current position and angle at sensor_distance
\* along angle, angle - sensor_angle and angle + sensor_angle, and the agent
\* then moves by its population's step_distance, so that for equal random
\* direction choices both methods drive agents and fields through the same
\* states: from every state of run_cl's agent phase, the task of an agent
\* leaves what the task of run leaves.
C21_RunClAsRun ==
    (call.op = "run_cl" /\ pc = "agents") =>
        \A a \in pending :
            /\ AgentUpdateCl(grids, agents[a], call.locals, call.sensors)
                   = AgentUpdate(grids, agents[a])
            /\ LET grid == grids[agents[a].population_id + 1]
                   s == call.sensors[a]
               IN  {[x |-> s.xc, y |-> s.yc], [x |-> s.xl, y |-> s.yl],
                    [x |-> s.xr, y |-> s.yr]} = SensorPoints(grid, agents[a])

====
